---- MODULE Spec2Model ----
(***************************************************************************)
(* Bitis, binary timed signals: a model of the Signal class of bitis.py.   *)
(* A signal is the start time, the ascending list of edge times, the end   *)
(* time, the level before the first edge and a time scale.  Times are      *)
(* integers; levels are 0 and 1 (Python's False/True compare equal to      *)
(* them).  The void signal is Signal(): its start is None, modelled by the *)
(* field void.  The library is Python 2 code: the truth of a signal is     *)
(* __nonzero__, and None compares below every number.                      *)
(***************************************************************************)
EXTENDS Integers, Sequences, FiniteSets, TLC

VARIABLES a, b, res

vars == <<a, b, res>>

\* Times of the signals drawn in Init run over 0..MaxTime.
MaxTime == 2

Times == 0..MaxTime

\* Time scales drawn in Init; 1 is the constructor's default (1.).
TScales == {1, 2}

Levels == {0, 1}

-----------------------------------------------------------------------------
(* Small helpers over sequences and levels.                                *)

Lxor(x, y) == (x + y) % 2

\* Python's "not x" on a level.
Lnot(x) == 1 - x

Max(x, y) == IF x >= y THEN x ELSE y

Min(x, y) == IF x <= y THEN x ELSE y

Range(s) == {s[i] : i \in 1..Len(s)}

Ascending(s) == \A i \in 1..(Len(s) - 1) : s[i] < s[i + 1]

\* Python's s[lo:hi] for 0 <= lo, hi <= len(s).
Slice(s, lo, hi) == SubSeq(s, lo + 1, hi)

RECURSIVE Insert(_, _)
Insert(s, x) ==
    IF s = <<>> THEN <<x>>
    ELSE IF x < Head(s) THEN <<x>> \o s
    ELSE <<Head(s)>> \o Insert(Tail(s), x)

\* list.sort() on a list of times.
RECURSIVE Sort(_)
Sort(s) == IF s = <<>> THEN <<>> ELSE Insert(Sort(Tail(s)), Head(s))

-----------------------------------------------------------------------------
(* The Signal object.                                                      *)

\* Signal.__init__ with every attribute given: the attributes as stored.
Signal(start, edges, end, slevel, tscale) ==
    [void |-> FALSE, start |-> start, edges |-> edges, end |-> end,
     slevel |-> slevel, tscale |-> tscale]

\* Signal(): start None, no edges, end None, slevel 0, tscale 1.
Void ==
    [void |-> TRUE, start |-> 0, edges |-> <<>>, end |-> 0,
     slevel |-> 0, tscale |-> 1]

\* Signal.__nonzero__: a signal is true when its start is not None.
NonVoid(s) == ~s.void

\* The constructor's default time scale (tscale=1.).
DefaultTscale == 1

\* The value checking of Signal.validate for a non-void start: TRUE when a
\* ValueError is raised.  The first test reads "if self.start and ...".
ValidateRaises(start, edges, end) ==
    \/ start # 0 /\ ~(start < end)
    \/ /\ Len(edges) > 0
       /\ \/ ~(start <= edges[1])
          \/ ~(edges[Len(edges)] <= end)
          \/ \E i \in 2..Len(edges) : ~(edges[i - 1] < edges[i])

\* A faulty variant of SigEq that leaves the time scale out of the comparison.
SigEqNoTscale(s, o) ==
    IF NonVoid(s) /\ NonVoid(o) THEN [s EXCEPT !.tscale = o.tscale] = o
    ELSE ~NonVoid(s) /\ ~NonVoid(o)

\* Signal.__eq__: both non-void and equal attribute dictionaries, or both void.
SigEq(s, o) ==
    IF NonVoid(s) /\ NonVoid(o) THEN s = o ELSE ~NonVoid(s) /\ ~NonVoid(o)

\* Signal.end_level (also written inline in join).
EndLevel(s) == Lxor(Len(s.edges) % 2, s.slevel)

\* Signal.elapse of a non-void signal.
Elapse(s) == s.end - s.start

\* A faulty variant of Level that also counts an edge at the given time as
\* being before it.
RECURSIVE LevelInclusive(_, _, _)
LevelInclusive(s, time, tpos) ==
    IF tpos >= Len(s.edges)
    THEN IF time > s.end
         THEN [none |-> TRUE, level |-> 0, pos |-> 0]
         ELSE [none |-> FALSE, level |-> Lxor(Len(s.edges) % 2, s.slevel),
               pos |-> Len(s.edges)]
    ELSE IF time >= s.edges[tpos + 1]
         THEN LevelInclusive(s, time, tpos + 1)
         ELSE [none |-> FALSE, level |-> Lxor(tpos % 2, s.slevel), pos |-> tpos]

\* A faulty variant of Level that counts the edges from tpos on only, as if
\* no edge came before the hint.
LevelFromHint(s, time, tpos) ==
    LET n == Cardinality({i \in (tpos + 1)..Len(s.edges) : time > s.edges[i]})
    IN IF n >= Len(s.edges) - tpos /\ time > s.end
       THEN [none |-> TRUE, level |-> 0, pos |-> 0]
       ELSE [none |-> FALSE, level |-> Lxor(n % 2, s.slevel), pos |-> n]

\* Signal.level(time, tpos): [none, level, pos]; none stands for (None, None).
RECURSIVE Level(_, _, _)
Level(s, time, tpos) ==
    IF tpos >= Len(s.edges)
    THEN IF time > s.end
         THEN [none |-> TRUE, level |-> 0, pos |-> 0]
         ELSE [none |-> FALSE, level |-> Lxor(Len(s.edges) % 2, s.slevel),
               pos |-> Len(s.edges)]
    ELSE IF time > s.edges[tpos + 1]
         THEN Level(s, time, tpos + 1)
         ELSE [none |-> FALSE, level |-> Lxor(tpos % 2, s.slevel), pos |-> tpos]

-----------------------------------------------------------------------------
(* Intersection and the logic operators.                                   *)

\* The first loop of _intersect: 0-based index of the first edge >= start,
\* len when there is none.
FirstInside(edges, start) ==
    IF \E i \in 1..Len(edges) : edges[i] >= start
    THEN (CHOOSE i \in 1..Len(edges) :
            edges[i] >= start /\ \A j \in 1..(i - 1) : edges[j] < start) - 1
    ELSE Len(edges)

\* The inner loop of _intersect: one past the 0-based index of the last edge
\* <= end, -1 when there is none (the loop's else branch).
LastInside(edges, end) ==
    IF \E i \in 1..Len(edges) : edges[i] <= end
    THEN CHOOSE i \in 1..Len(edges) :
            edges[i] <= end /\ \A j \in (i + 1)..Len(edges) : edges[j] > end
    ELSE -1

\* The index pair (i_start, i_end) _intersect computes for one operand.
EdgeWindow(edges, start, end) ==
    IF FirstInside(edges, start) = Len(edges)
    THEN <<Len(edges), Len(edges)>>
    ELSE IF LastInside(edges, end) = -1
         THEN <<0, 0>>
         ELSE <<FirstInside(edges, start), LastInside(edges, end)>>

\* A faulty variant of NoOverlap that takes touching domains as overlapping.
NoOverlapStrict(start, end) == start > end

\* The test "if start >= end" of _intersect: the domains do not overlap.
NoOverlap(start, end) == start >= end

\* Signal._intersect: none stands for the None result.
Intersect(s, o) ==
    LET start == Max(s.start, o.start)
        end == Min(s.end, o.end)
        wa == EdgeWindow(s.edges, start, end)
        wb == EdgeWindow(o.edges, start, end)
        nothing == [none |-> TRUE, start |-> 0, end |-> 0,
                    ia_start |-> 0, ia_end |-> 0, slevel_a |-> 0,
                    ib_start |-> 0, ib_end |-> 0, slevel_b |-> 0]
    IN IF ~NonVoid(s) \/ ~NonVoid(o) THEN nothing
       ELSE IF NoOverlap(start, end) THEN nothing
       ELSE [none |-> FALSE, start |-> start, end |-> end,
             ia_start |-> wa[1], ia_end |-> wa[2],
             slevel_a |-> Lxor(s.slevel, wa[1] % 2),
             ib_start |-> wb[1], ib_end |-> wb[2],
             slevel_b |-> Lxor(o.slevel, wb[1] % 2)]

\* A faulty variant of Oper that computes the logic or for every operator.
OperAlwaysOr(op, x, y) == Max(x, y)

\* The lambdas of __and__ and __or__ on levels.
Oper(op, x, y) == IF op = "and" THEN Min(x, y) ELSE Max(x, y)

\* One edge taken by the while loop of _bioper: when the new input levels
\* change the output, the edge time t is appended and the output inverted.
Emit(op, acc, na, nb, t) ==
    IF acc.out # Oper(op, na, nb)
    THEN [out |-> Lnot(acc.out), edges |-> Append(acc.edges, t)]
    ELSE acc

\* The while loop of _bioper from (ia, ib) on: the state it ends in.
RECURSIVE Merge(_, _, _, _, _, _, _, _, _, _)
Merge(s, o, op, ia, ib, ia_end, ib_end, in_a, in_b, acc) ==
    IF ~(ia < ia_end /\ ib < ib_end)
    THEN [ia |-> ia, ib |-> ib, in_a |-> in_a, in_b |-> in_b,
          out |-> acc.out, edges |-> acc.edges]
    ELSE IF s.edges[ia + 1] < o.edges[ib + 1]
         THEN Merge(s, o, op, ia + 1, ib, ia_end, ib_end, Lnot(in_a), in_b,
                    Emit(op, acc, Lnot(in_a), in_b, s.edges[ia + 1]))
    ELSE IF s.edges[ia + 1] > o.edges[ib + 1]
         THEN Merge(s, o, op, ia, ib + 1, ia_end, ib_end, in_a, Lnot(in_b),
                    Emit(op, acc, in_a, Lnot(in_b), o.edges[ib + 1]))
    ELSE Merge(s, o, op, ia + 1, ib + 1, ia_end, ib_end, Lnot(in_a), Lnot(in_b),
               Emit(op, acc, Lnot(in_a), Lnot(in_b), s.edges[ia + 1]))

\* The test guarding the copy of the remaining edges once one list is
\* exhausted: operator(fixed,0) != operator(fixed,1).
\* (A faulty variant, TailAlways, copies the remaining edges whatever the
\* operator and the level.)
TailAlways(op, fixed) == TRUE

TailPasses(op, fixed) == Oper(op, fixed, 0) # Oper(op, fixed, 1)

\* The edges _bioper appends after the loop.  In the second branch the code
\* compares in_b instead of assigning it, so the loop's in_b is the one used.
MergeTail(s, o, op, m, ia_end, ib_end) ==
    IF m.ia = ia_end /\ m.ib < ib_end
    THEN IF TailPasses(op, Lxor(s.slevel, m.ia % 2))
         THEN Slice(o.edges, m.ib, ib_end) ELSE <<>>
    ELSE IF m.ia < ia_end /\ m.ib = ib_end
         THEN IF TailPasses(op, m.in_b)
              THEN Slice(s.edges, m.ia, ia_end) ELSE <<>>
         ELSE <<>>

\* Signal._bioper, for the operators of __and__ ("and") and __or__ ("or").
Bioper(s, o, op) ==
    LET x == Intersect(s, o)
        m == Merge(s, o, op, x.ia_start, x.ib_start, x.ia_end, x.ib_end,
                   x.slevel_a, x.slevel_b,
                   [out |-> Oper(op, x.slevel_a, x.slevel_b), edges |-> <<>>])
    IN IF ~NonVoid(s) \/ ~NonVoid(o) THEN Void
       ELSE IF x.none THEN Void
       ELSE IF Len(s.edges) < 1 /\ Len(o.edges) < 1
            THEN Signal(x.start, <<>>, x.end, Oper(op, s.slevel, o.slevel),
                        DefaultTscale)
       ELSE IF Len(s.edges) < 1 /\ Lxor(Oper(op, 1, 0), s.slevel) = 0
            THEN Signal(x.start, <<>>, x.end, s.slevel, DefaultTscale)
       ELSE IF Len(o.edges) < 1 /\ Lxor(Oper(op, 1, 0), o.slevel) = 0
            THEN Signal(x.start, <<>>, x.end, o.slevel, DefaultTscale)
       ELSE Signal(x.start,
                   m.edges \o MergeTail(s, o, op, m, x.ia_end, x.ib_end),
                   x.end, Oper(op, x.slevel_a, x.slevel_b), DefaultTscale)

\* Signal.__and__
And(s, o) == Bioper(s, o, "and")

\* Signal.__or__
Or(s, o) == Bioper(s, o, "or")

\* A faulty variant of Cancel that leaves simultaneous edges in place.
CancelNone(e, i) == e

\* The while loop of __xor__ that deletes pairs of equal neighbours, from
\* 0-based index i on.
RECURSIVE Cancel(_, _)
Cancel(e, i) ==
    IF ~(i < Len(e) - 1) THEN e
    ELSE IF e[i + 1] - e[i + 2] = 0
         THEN Cancel(Slice(e, 0, i) \o Slice(e, i + 2, Len(e)), i)
         ELSE Cancel(e, i + 1)

\* Signal.__xor__
Xor(s, o) ==
    LET x == Intersect(s, o)
    IN IF ~NonVoid(s) \/ ~NonVoid(o) THEN Void
       ELSE IF x.none THEN Void
       ELSE Signal(x.start,
                   Cancel(Sort(Slice(s.edges, x.ia_start, x.ia_end)
                               \o Slice(o.edges, x.ib_start, x.ib_end)), 0),
                   x.end, Lxor(x.slevel_a, x.slevel_b), DefaultTscale)

\* A faulty variant of Invert that leaves the start level as it is.
InvertKeep(s) == s

\* Signal.__invert__: the signal returned (and, in place, left in self).
Invert(s) == IF ~NonVoid(s) THEN s ELSE [s EXCEPT !.slevel = Lnot(s.slevel)]

-----------------------------------------------------------------------------
(* Shift, reverse, split, join, chop and stream.  An operation that can    *)
(* raise returns a record whose err field tells whether it did; self is    *)
(* the object the method was called on as the call leaves it.              *)

\* Signal.shift: the signal returned (and, in place, left in self).
Shift(s, offset) ==
    IF ~NonVoid(s) THEN s
    ELSE [s EXCEPT !.start = s.start + offset,
                   !.edges = [i \in 1..Len(s.edges) |-> s.edges[i] + offset],
                   !.end = s.end + offset]

\* A faulty variant of Reverse that leaves the reflected edges in the order
\* the loop wrote them, without the final sort.
ReverseUnsorted(s) ==
    IF ~NonVoid(s) \/ Len(s.edges) = 0 THEN s
    ELSE [s EXCEPT
            !.slevel = IF Len(s.edges) % 2 = 1 THEN Lnot(s.slevel) ELSE s.slevel,
            !.edges = [i \in 1..Len(s.edges) |-> s.start + s.end - s.edges[i]]]

\* Signal.reverse: the signal returned (and, in place, left in self).
Reverse(s) ==
    IF ~NonVoid(s) \/ Len(s.edges) = 0 THEN s
    ELSE [s EXCEPT
            !.slevel = IF Len(s.edges) % 2 = 1 THEN Lnot(s.slevel) ELSE s.slevel,
            !.edges = Sort([i \in 1..Len(s.edges) |->
                              s.start + s.end - s.edges[i]])]

\* The older part split builds: Signal(self.start, self.edges[0:split_pos],
\* split, slevel=self.slevel, tscale=self.tscale).
OlderPart(s, split) ==
    Signal(s.start, Slice(s.edges, 0, Level(s, split, 0).pos), split,
           s.slevel, s.tscale)

\* The newer part split builds: start split, the edges from split_pos on, the
\* end of self, the level found at the split time.
NewerPart(s, split) ==
    Signal(split, Slice(s.edges, Level(s, split, 0).pos, Len(s.edges)), s.end,
           Level(s, split, 0).level, s.tscale)

\* Signal.split(split, inplace): [err, older, newer, self].  The older part
\* and, when not in place, the newer part go through the constructor, whose
\* validation can raise.
Split(s, split, inplace) ==
    LET older == OlderPart(s, split)
        newer == NewerPart(s, split)
        ok(o, n, me) == [err |-> FALSE, older |-> o, newer |-> n, self |-> me]
        raised == [err |-> TRUE, older |-> Void, newer |-> Void, self |-> s]
    IN IF ~NonVoid(s) THEN ok(IF inplace THEN s ELSE Void,
                              IF inplace THEN s ELSE Void, s)
       ELSE IF split <= s.start THEN ok(Void, s, s)
       ELSE IF s.end <= split THEN ok(s, Void, s)
       ELSE IF ValidateRaises(older.start, older.edges, older.end) THEN raised
       ELSE IF inplace THEN ok(older, newer, newer)
       ELSE IF ValidateRaises(newer.start, newer.edges, newer.end) THEN raised
       ELSE ok(older, newer, s)

\* A faulty variant of JoinAsserts without the assertion on the levels.
JoinAssertsOverlap(s, o) == ~(s.end <= o.start)

\* The two assertions of join: TRUE when one of them fails.
JoinAsserts(s, o) ==
    \/ ~(s.end <= o.start)
    \/ ~(Lxor(Len(s.edges) % 2, s.slevel) = o.slevel)

\* The signal join builds when not in place: the time scale is not passed on.
Joined(s, o) ==
    Signal(s.start, s.edges \o o.edges, o.end, s.slevel, DefaultTscale)

\* Signal.join(other, inplace): [err, out, self].  Not in place the result
\* goes through the constructor, whose validation can raise.
Join(s, o, inplace) ==
    LET ok(r, me) == [err |-> FALSE, out |-> r, self |-> me]
        raised == [err |-> TRUE, out |-> Void, self |-> s]
    IN IF ~NonVoid(o) THEN ok(s, s)
       ELSE IF ~NonVoid(s) THEN ok(o, IF inplace THEN o ELSE s)
       ELSE IF JoinAsserts(s, o) THEN raised
       ELSE IF inplace
            THEN ok([s EXCEPT !.edges = s.edges \o o.edges, !.end = o.end],
                    [s EXCEPT !.edges = s.edges \o o.edges, !.end = o.end])
       ELSE IF ValidateRaises(Joined(s, o).start, Joined(s, o).edges,
                              Joined(s, o).end) THEN raised
       ELSE ok(Joined(s, o), s)

\* Signal.append(other): join in place.
AppendSig(s, o) == Join(s, o, TRUE)

\* The default of chop's max_chops argument.
MaxChops == 1000

\* The for loop of chop from its c-th pass on: signal is the working copy,
\* split the next chop time, send the end of the chopped signal.
RECURSIVE ChopLoop(_, _, _, _, _, _, _)
ChopLoop(signal, split, period, send, c, max_chops, chops) ==
    IF c >= max_chops THEN [err |-> FALSE, chops |-> chops]
    ELSE LET r == Split(signal, split, TRUE)
         IN IF r.err THEN [err |-> TRUE, chops |-> <<>>]
            ELSE IF send <= split
                 THEN [err |-> FALSE, chops |-> Append(chops, r.older)]
                 ELSE ChopLoop(r.self, split + period, period, send, c + 1,
                               max_chops, Append(chops, r.older))

\* Signal.chop(period, origin, max_chops): [err, chops].  given tells whether
\* origin was passed; when not it defaults to the start of the signal.
Chop(s, period, given, origin, max_chops) ==
    LET org == IF given THEN origin ELSE s.start
        d == Split(s, org, TRUE)
    IN IF ~NonVoid(s) THEN [err |-> FALSE, chops |-> <<>>]
       ELSE IF s.end <= org THEN [err |-> FALSE, chops |-> <<s>>]
       ELSE IF org <= s.start
            THEN ChopLoop(s, s.start + period - ((s.start - org) % period),
                          period, s.end, 1, max_chops, <<>>)
       ELSE IF d.err THEN [err |-> TRUE, chops |-> <<>>]
       ELSE ChopLoop(d.self, org + period, period, s.end, 1, max_chops, <<>>)

\* Signal.stream(other, elapse, buf_step): [err, discard, keep, self].  The
\* elapse of a void self is None, which Python 2 orders before any number.
Stream(s, o, elapse, buf_step) ==
    LET j == AppendSig(s, o)
        me == j.self
        shift == (((Elapse(me) - elapse) \div buf_step) + 1) * buf_step
        r == Split(me, me.start + shift, FALSE)
    IN IF j.err THEN [err |-> TRUE, discard |-> Void, keep |-> Void, self |-> s]
       ELSE IF ~NonVoid(me) \/ Elapse(me) <= elapse
            THEN [err |-> FALSE, discard |-> Void, keep |-> me, self |-> me]
       ELSE IF r.err
            THEN [err |-> TRUE, discard |-> Void, keep |-> Void, self |-> me]
       ELSE [err |-> FALSE, discard |-> r.older, keep |-> r.newer, self |-> me]

-----------------------------------------------------------------------------
(* Comparison, integral and correlation.  A result that can be None is a   *)
(* record whose none field tells whether it is.                            *)

\* Signal.__ne__ as a truth value: the attribute dictionaries differ, or
\* "self or other", which is true when one of the two is not void.
SigNe(s, o) ==
    IF NonVoid(s) /\ NonVoid(o) THEN s # o ELSE NonVoid(s) \/ NonVoid(o)

\* A faulty variant of EdgesInt that adds nothing for a last edge without a
\* partner.
RECURSIVE EdgesIntPairs(_, _)
EdgesIntPairs(s, i) ==
    IF i >= Len(s.edges) THEN 0
    ELSE (IF i + 1 < Len(s.edges) THEN s.edges[i + 2] - s.edges[i + 1] ELSE 0)
         + EdgesIntPairs(s, i + 2)

\* The summation loop of integral from index i on: edges[i+1] - edges[i] for
\* every second edge, and end - edges[-1] when edges[i+1] does not exist.
RECURSIVE EdgesInt(_, _)
EdgesInt(s, i) ==
    IF i >= Len(s.edges) THEN 0
    ELSE (IF i + 1 < Len(s.edges) THEN s.edges[i + 2] - s.edges[i + 1]
          ELSE s.end - s.edges[Len(s.edges)])
         + EdgesInt(s, i + 2)

\* Signal.integral(level, normalize=False): [none, value].
Integral(s, level) ==
    IF ~NonVoid(s) THEN [none |-> TRUE, value |-> 0]
    ELSE [none |-> FALSE,
          value |-> IF Lxor(level, s.slevel) = 1 THEN EdgesInt(s, 0)
                    ELSE s.end - s.start - EdgesInt(s, 0)]

\* The number of slide steps correlation computes to one side when the step
\* count is not given: elapse / step_size, one less when that is above 1 and
\* whole.  Times and step sizes are Python 2 integers, whose quotient is
\* whole.
SlideSteps(elapse, step_size) ==
    IF elapse \div step_size > 1 THEN (elapse \div step_size) - 1
    ELSE elapse \div step_size

\* The loop of correlation from the given step on: sig_a is the first signal
\* as shifted so far, corr and shifts the lists built so far.
RECURSIVE CorrLoop(_, _, _, _, _, _, _, _)
CorrLoop(sig_a, o, step, right_steps, step_size, shift, corr, shifts) ==
    IF step > right_steps THEN [corr |-> corr, shifts |-> shifts]
    ELSE CorrLoop(Shift(sig_a, step_size), o, step + 1, right_steps, step_size,
                  shift, Append(corr, Integral(Xor(sig_a, o), 0)),
                  Append(shifts, step * step_size + shift))

\* Signal.correlation(other, step_size=step_size) without mask, normalize,
\* step_left and step_right: [corr, shifts].
Correlation(s, o, step_size) ==
    IF ~NonVoid(s) \/ ~NonVoid(o) THEN [corr |-> <<>>, shifts |-> <<>>]
    ELSE LET left_steps == SlideSteps(Elapse(s), step_size)
             right_steps == SlideSteps(Elapse(o), step_size)
             shift == o.start - s.start
         IN CorrLoop(Shift(s, shift - left_steps * step_size), o, -left_steps,
                     right_steps, step_size, shift, <<>>, <<>>)

-----------------------------------------------------------------------------
(* The pulse width codec.  A bit field is the pair <<bit_num, code>>; the   *)
(* codes are not negative.                                                 *)

\* A faulty variant of FieldEdges that never shifts the code, so that every
\* pulse codes its lowest bit.
RECURSIVE FieldEdgesKeepCode(_, _, _, _, _, _, _)
FieldEdgesKeepCode(i, bit_num, code, t0, elapse_0, elapse_1, period) ==
    IF i >= bit_num THEN <<>>
    ELSE <<t0, t0 + (IF code % 2 = 1 THEN elapse_1 ELSE elapse_0)>>
         \o FieldEdgesKeepCode(i + 1, bit_num, code, t0 + period,
                               elapse_0, elapse_1, period)

\* The inner loop of bin2pwm from its i-th pass on: the two edges of one
\* pulse for every bit of the field, lowest bit first.
RECURSIVE FieldEdges(_, _, _, _, _, _, _)
FieldEdges(i, bit_num, code, t0, elapse_0, elapse_1, period) ==
    IF i >= bit_num THEN <<>>
    ELSE <<t0, t0 + (IF code % 2 = 1 THEN elapse_1 ELSE elapse_0)>>
         \o FieldEdges(i + 1, bit_num, code \div 2, t0 + period,
                       elapse_0, elapse_1, period)

\* The outer loop of bin2pwm over a non-empty rest of the field list: the
\* edges it appends and the value it leaves in end.
RECURSIVE PwmLoop(_, _, _, _, _)
PwmLoop(fields, origin, elapse_0, elapse_1, period) ==
    LET bit_num == Head(fields)[1]
        code == Head(fields)[2]
        end == bit_num * period + origin
        edges == FieldEdges(0, bit_num, code, origin, elapse_0, elapse_1, period)
        rest == PwmLoop(Tail(fields), end, elapse_0, elapse_1, period)
    IN IF Len(fields) = 1 THEN [edges |-> edges, end |-> end]
       ELSE [edges |-> edges \o rest.edges, end |-> rest.end]

\* bin2pwm(bincode, elapse_0, elapse_1, period, active, origin): [err, out].
\* islist tells whether bincode is a list of fields or one field.  With an
\* empty list the loop never binds end, and the test start == end raises
\* UnboundLocalError; the constructor's validation can raise too.  tscale is
\* left at its default, 1. as in the constructor.
Bin2pwm(islist, bincode, elapse_0, elapse_1, period, active, origin) ==
    LET fields == IF islist THEN bincode ELSE <<bincode>>
        r == PwmLoop(fields, origin, elapse_0, elapse_1, period)
        raised == [err |-> TRUE, out |-> Void]
    IN IF fields = <<>> THEN raised
       ELSE IF origin = r.end THEN [err |-> FALSE, out |-> Void]
       ELSE IF ValidateRaises(origin, r.edges, r.end) THEN raised
       ELSE [err |-> FALSE,
             out |-> Signal(origin, r.edges, r.end, 1 - active, DefaultTscale)]

\* The bit pwm2bin reads from a pulse of the given width: the width against
\* the threshold (elapse_0 + elapse_1) / 2., and which elapse is the longer.
PulseBit(width, elapse_0, elapse_1) ==
    IF 2 * width > elapse_0 + elapse_1
    THEN (IF elapse_0 < elapse_1 THEN 1 ELSE 0)
    ELSE (IF elapse_0 < elapse_1 THEN 0 ELSE 1)

\* The loop of pwm2bin without period from index i down, in steps of two.
RECURSIVE DecodeLoop(_, _, _, _, _)
DecodeLoop(pwm, i, code, elapse_0, elapse_1) ==
    IF i < 0 THEN code
    ELSE DecodeLoop(pwm, i - 2,
                    2 * code + PulseBit(pwm.edges[i + 2] - pwm.edges[i + 1],
                                        elapse_0, elapse_1),
                    elapse_0, elapse_1)

\* pwm2bin(pwm, elapse_0, elapse_1) with period not set: the pair returned.
Pwm2bin(pwm, elapse_0, elapse_1) ==
    IF ~NonVoid(pwm) THEN [bits |-> 0, code |-> 0]
    ELSE [bits |-> Len(pwm.edges) \div 2,
          code |-> DecodeLoop(pwm, Len(pwm.edges) - ((Len(pwm.edges) % 2) + 2),
                              0, elapse_0, elapse_1)]

-----------------------------------------------------------------------------
(* The caller: two signal objects a and b, and the last call made on them.  *)
(* res records the call: its name, whether it was made in place, whether it *)
(* raised, the operands as they were before the call (x is a, y is b), the  *)
(* numeric arguments and the signals returned.                              *)

Call(op, inplace, err, x, y, args, outs) ==
    [op |-> op, inplace |-> inplace, err |-> err, x |-> x, y |-> y,
     args |-> args, outs |-> outs]

NoCall == Call("none", FALSE, FALSE, Void, Void, <<>>, <<>>)

\* The strictly ascending sequences over a set of times.
AscendingSeqs(S) ==
    UNION {{e \in [1..n -> S] : Ascending(e)} : n \in 0..Cardinality(S)}

\* The valid signals over Times, and the void signal.
ValidSignals ==
    {Signal(s, e, en, l, ts) :
        s \in Times, en \in Times, e \in AscendingSeqs(Times),
        l \in Levels, ts \in TScales}

Universe ==
    {Void} \cup {s \in ValidSignals :
                    ~ValidateRaises(s.start, s.edges, s.end) /\ s.start < s.end}

Init ==
    /\ a \in Universe
    /\ b \in Universe
    /\ res = NoCall

\* The timing invariants of a non-void signal.
WellFormed(s) ==
    /\ NonVoid(s)
    /\ s.start < s.end
    /\ Ascending(s.edges)
    /\ Len(s.edges) > 0 => s.start <= s.edges[1] /\ s.edges[Len(s.edges)] <= s.end

VoidOrWellFormed(s) == ~NonVoid(s) \/ WellFormed(s)

\* No call is pending.
Idle == res.op = "none"

\* The caller makes the next call when none is pending, and makes calls on
\* signals that are void or well formed only: a signal that a call left
\* malformed is not operated on further.
Ready == Idle /\ VoidOrWellFormed(a) /\ VoidOrWellFormed(b)

DoAnd ==
    /\ Ready
    /\ res' = Call("and", FALSE, FALSE, a, b, <<>>, <<And(a, b)>>)
    /\ UNCHANGED <<a, b>>

DoOr ==
    /\ Ready
    /\ res' = Call("or", FALSE, FALSE, a, b, <<>>, <<Or(a, b)>>)
    /\ UNCHANGED <<a, b>>

DoXor ==
    /\ Ready
    /\ res' = Call("xor", FALSE, FALSE, a, b, <<>>, <<Xor(a, b)>>)
    /\ UNCHANGED <<a, b>>

DoNot ==
    /\ Ready
    /\ \E inplace \in BOOLEAN :
        /\ res' = Call("not", inplace, FALSE, a, b, <<>>, <<Invert(a)>>)
        /\ a' = IF inplace THEN Invert(a) ELSE a
    /\ UNCHANGED b

\* The arguments the caller draws.
Offsets == {-1, 1}

Periods == {1, 2}

Origins == {-1} \cup Times

Elapses == {1, 2}

BufSteps == {1, 2, 3}

\* a.shift(offset, inplace), while the shifted signal stays within Times.
DoShift ==
    /\ Ready
    /\ \E offset \in Offsets, inplace \in BOOLEAN :
        /\ NonVoid(a) => a.start + offset \in Times /\ a.end + offset \in Times
        /\ res' = Call("shift", inplace, FALSE, a, b, <<offset>>,
                       <<Shift(a, offset)>>)
        /\ a' = IF inplace THEN Shift(a, offset) ELSE a
    /\ UNCHANGED b

\* a.reverse(inplace)
DoReverse ==
    /\ Ready
    /\ \E inplace \in BOOLEAN :
        /\ res' = Call("reverse", inplace, FALSE, a, b, <<>>, <<Reverse(a)>>)
        /\ a' = IF inplace THEN Reverse(a) ELSE a
    /\ UNCHANGED b

\* a.split(t, inplace)
DoSplit ==
    /\ Ready
    /\ \E t \in Times, inplace \in BOOLEAN :
        LET r == Split(a, t, inplace)
        IN /\ res' = Call("split", inplace, r.err, a, b, <<t>>,
                          IF r.err THEN <<>> ELSE <<r.older, r.newer>>)
           /\ a' = r.self
    /\ UNCHANGED b

\* a.join(b, inplace)
DoJoin ==
    /\ Ready
    /\ \E inplace \in BOOLEAN :
        LET r == Join(a, b, inplace)
        IN /\ res' = Call("join", inplace, r.err, a, b, <<>>,
                          IF r.err THEN <<>> ELSE <<r.out>>)
           /\ a' = r.self
    /\ UNCHANGED b

\* a.append(b)
DoAppend ==
    /\ Ready
    /\ LET r == AppendSig(a, b)
       IN /\ res' = Call("append", TRUE, r.err, a, b, <<>>,
                         IF r.err THEN <<>> ELSE <<r.out>>)
          /\ a' = r.self
    /\ UNCHANGED b

\* a.chop(period) and a.chop(period, origin)
DoChop ==
    /\ Ready
    /\ \E period \in Periods, given \in BOOLEAN, origin \in Origins :
        LET r == Chop(a, period, given, origin, MaxChops)
        IN /\ ~given => origin = 0
           /\ res' = Call("chop", FALSE, r.err, a, b,
                          <<period, IF given THEN 1 ELSE 0, origin>>, r.chops)
    /\ UNCHANGED <<a, b>>

\* a.stream(b, elapse, buf_step)
DoStream ==
    /\ Ready
    /\ \E elapse \in Elapses, buf_step \in BufSteps :
        LET r == Stream(a, b, elapse, buf_step)
        IN /\ res' = Call("stream", TRUE, r.err, a, b, <<elapse, buf_step>>,
                          IF r.err THEN <<>> ELSE <<r.discard, r.keep>>)
           /\ a' = r.self
    /\ UNCHANGED b

\* Times level is asked at: they reach past the end of every signal.
LevelTimes == 0..(MaxTime + 1)

StepSizes == {1, 2}

\* a == b and a != b
DoEq ==
    /\ Ready
    /\ res' = Call("eq", FALSE, FALSE, a, b, <<>>,
                   <<[eq |-> SigEq(a, b), ne |-> SigNe(a, b)]>>)
    /\ UNCHANGED <<a, b>>

\* a.integral(level)
DoIntegral ==
    /\ Ready
    /\ \E level \in Levels :
        res' = Call("integral", FALSE, FALSE, a, b, <<level>>,
                    <<Integral(a, level)>>)
    /\ UNCHANGED <<a, b>>

\* a.level(time, tpos) of a non-void a, with tpos up to the number of edges.
DoLevel ==
    /\ Ready
    /\ NonVoid(a)
    /\ \E time \in LevelTimes, tpos \in 0..Len(a.edges) :
        res' = Call("level", FALSE, FALSE, a, b, <<time, tpos>>,
                    <<Level(a, time, tpos)>>)
    /\ UNCHANGED <<a, b>>

\* a.correlation(b, step_size=step_size)
DoCorrelation ==
    /\ Ready
    /\ \E step_size \in StepSizes :
        res' = Call("correlation", FALSE, FALSE, a, b, <<step_size>>,
                    <<Correlation(a, b, step_size)>>)
    /\ UNCHANGED <<a, b>>

\* Times the constructor is called with: they reach below the signals' times.
NewTimes == {-1} \cup Times

\* The lists of at most two times, ascending or not.
NewEdges == UNION {[1..n -> NewTimes] : n \in 0..2}

\* Signal(start, edges, end, slevel, tscale) with a start that is not None.
\* x holds the attributes as __init__ stores them before it validates them.
DoNew ==
    /\ Idle
    /\ \E start \in NewTimes, end \in NewTimes, edges \in NewEdges,
          slevel \in Levels, tscale \in TScales :
        res' = Call("new", FALSE, ValidateRaises(start, edges, end),
                    Signal(start, edges, end, slevel, tscale), Void, <<>>,
                    IF ValidateRaises(start, edges, end) THEN <<>>
                    ELSE <<Signal(start, edges, end, slevel, tscale)>>)
    /\ UNCHANGED <<a, b>>

\* The longest bit field the caller encodes.
MaxBits == 2

\* The bit fields <<bit_num, code>> with 0 <= code < 2^bit_num.
Fields == {f \in (0..MaxBits) \X (0..(2 ^ MaxBits - 1)) : f[2] < 2 ^ f[1]}

\* The lists of at most two bit fields.
FieldLists == UNION {[1..n -> Fields] : n \in 0..2}

PulseElapses == {1, 2, 3}

PulsePeriods == {3, 4}

PulseOrigins == {-1, 0, 1}

\* bin2pwm(bincode, elapse_0, elapse_1, period, active, origin) of a list of
\* fields or of one field.
DoBin2pwm ==
    /\ Idle
    /\ \E islist \in BOOLEAN, elapse_0 \in PulseElapses,
          elapse_1 \in PulseElapses, period \in PulsePeriods,
          active \in Levels, origin \in PulseOrigins :
        \E bincode \in (IF islist THEN FieldLists ELSE Fields) :
            LET r == Bin2pwm(islist, bincode, elapse_0, elapse_1, period,
                             active, origin)
            IN res' = Call("bin2pwm", FALSE, r.err, Void, Void,
                           <<IF islist THEN 1 ELSE 0, bincode, elapse_0,
                             elapse_1, period, active, origin>>,
                           IF r.err THEN <<>> ELSE <<r.out>>)
    /\ UNCHANGED <<a, b>>

\* pwm2bin(pwm, elapse_0, elapse_1) of the signal bin2pwm has just returned,
\* with the pulse elapses it was coded with; args stay those of the coding.
DoPwm2bin ==
    /\ res.op = "bin2pwm"
    /\ ~res.err
    /\ res' = Call("pwm2bin", FALSE, FALSE, res.outs[1], Void, res.args,
                   <<Pwm2bin(res.outs[1], res.args[3], res.args[4])>>)
    /\ UNCHANGED <<a, b>>

\* The caller is done with the result of the call.
Return ==
    /\ ~Idle
    /\ res' = NoCall
    /\ UNCHANGED <<a, b>>

\* The caller goes on with a returned signal in place of a.
Rebind ==
    /\ ~Idle
    /\ \E i \in 1..Len(res.outs) : a' = res.outs[i]
    /\ res' = NoCall
    /\ UNCHANGED b

NextLogic == DoAnd \/ DoOr \/ DoXor \/ DoNot \/ Return

SpecLogic == Init /\ [][NextLogic]_vars

Next ==
    \/ DoAnd \/ DoOr \/ DoXor \/ DoNot
    \/ DoShift \/ DoReverse \/ DoSplit \/ DoJoin \/ DoAppend
    \/ DoChop \/ DoStream
    \/ Return \/ Rebind

Spec == Init /\ [][Next]_vars

\* The constructor alone, called by a caller that holds no signal yet.
InitNew == a = Void /\ b = Void /\ res = NoCall

NextNew == DoNew \/ Return

SpecNew == InitNew /\ [][NextNew]_vars

\* The calls that return numbers and truth values.
NextStat == DoEq \/ DoIntegral \/ DoLevel \/ DoCorrelation \/ Return

SpecStat == Init /\ [][NextStat]_vars

\* The pulse width codec, called by a caller that holds no signal.
InitPwm == a = Void /\ b = Void /\ res = NoCall

NextPwm == DoBin2pwm \/ DoPwm2bin \/ Return

SpecPwm == InitPwm /\ [][NextPwm]_vars

-----------------------------------------------------------------------------
(* What the claims speak of: a well-formed signal, and the level of a      *)
(* signal around a time, read off the edge list.                           *)

\* The level just before time t and just after it.
LevelBefore(s, t) ==
    Lxor(s.slevel, Cardinality({i \in 1..Len(s.edges) : s.edges[i] < t}) % 2)

LevelAfter(s, t) ==
    Lxor(s.slevel, Cardinality({i \in 1..Len(s.edges) : s.edges[i] <= t}) % 2)

\* The truth tables of the two-input operators.
Truth(op, p, q) ==
    IF op = "and" THEN (IF p = 1 /\ q = 1 THEN 1 ELSE 0)
    ELSE IF op = "or" THEN (IF p = 1 \/ q = 1 THEN 1 ELSE 0)
    ELSE (IF p # q THEN 1 ELSE 0)

Overlapping(x, y) ==
    /\ WellFormed(x)
    /\ WellFormed(y)
    /\ Max(x.start, y.start) < Min(x.end, y.end)

\* C1: the AND and the OR of two well-formed overlapping signals span the
\* overlap of the domains, have between any two neighbouring times of the
\* overlap the AND (OR) of the operands' levels, and their edges are exactly
\* the times of the overlap at which that level changes.
C1_MergeIsPointwise ==
    (res.op \in {"and", "or"} /\ Overlapping(res.x, res.y)) =>
        LET r == res.outs[1]
            lo == Max(res.x.start, res.y.start)
            hi == Min(res.x.end, res.y.end)
        IN /\ NonVoid(r)
           /\ r.start = lo
           /\ r.end = hi
           /\ \A t \in lo..(hi - 1) :
                LevelAfter(r, t) =
                    Truth(res.op, LevelAfter(res.x, t), LevelAfter(res.y, t))
           /\ Ascending(r.edges)
           /\ Range(r.edges) =
                {t \in lo..hi :
                    Truth(res.op, LevelBefore(res.x, t), LevelBefore(res.y, t))
                    # Truth(res.op, LevelAfter(res.x, t), LevelAfter(res.y, t))}

\* An AND whose first operand runs out of edges first while it is at level 1,
\* so that the rest of the second operand's edges reach the result.
C1_Witness ==
    /\ res.op = "and"
    /\ Overlapping(res.x, res.y)
    /\ Len(res.x.edges) >= 1
    /\ Len(res.y.edges) >= 2
    /\ res.x.edges[Len(res.x.edges)] < res.y.edges[Len(res.y.edges)]
    /\ res.y.edges[1] < res.x.edges[Len(res.x.edges)]
    /\ res.outs[1].edges # <<>>
    /\ res.outs[1].edges[Len(res.outs[1].edges)] = res.y.edges[Len(res.y.edges)]

\* C2: the XOR of two well-formed overlapping signals equals
\* OR(AND(a, NOT b), AND(NOT a, b)).
C2_XorFromAndOrNot ==
    (res.op = "xor" /\ Overlapping(res.x, res.y)) =>
        SigEq(res.outs[1],
              Or(And(res.x, Invert(res.y)), And(Invert(res.x), res.y)))

\* A XOR of two signals with an edge at the same time and an edge on the
\* boundary of the overlap.
C2_Witness ==
    /\ res.op = "xor"
    /\ Overlapping(res.x, res.y)
    /\ Range(res.x.edges) \cap Range(res.y.edges) # {}
    /\ Max(res.x.start, res.y.start) \in Range(res.x.edges)
    /\ Min(res.x.end, res.y.end) \in Range(res.y.edges)
    /\ res.outs[1].edges # <<>>

\* C8: AND, OR and XOR return the void signal when an operand is void and
\* when the domains do not overlap; NOT of the void signal is void.
C8_VoidAbsorbs ==
    /\ (/\ res.op \in {"and", "or", "xor"}
        /\ \/ ~NonVoid(res.x)
           \/ ~NonVoid(res.y)
           \/ Max(res.x.start, res.y.start) >= Min(res.x.end, res.y.end))
       => ~NonVoid(res.outs[1])
    /\ (res.op = "not" /\ ~NonVoid(res.x)) => ~NonVoid(res.outs[1])

\* An operator applied to two non-void signals whose domains only touch.
C8_Witness ==
    /\ res.op \in {"and", "or", "xor"}
    /\ WellFormed(res.x)
    /\ WellFormed(res.y)
    /\ res.x.end = res.y.start
    /\ ~NonVoid(res.outs[1])

\* C9: AND(s,s) == s, OR(s,s) == s, and XOR(s,s) is the constant 0 without
\* edges over the domain of s, for every well-formed s.
C9_SelfIdentity ==
    (res.op \in {"and", "or", "xor"} /\ WellFormed(res.x) /\ res.y = res.x) =>
        IF res.op = "xor"
        THEN /\ NonVoid(res.outs[1])
             /\ res.outs[1].start = res.x.start
             /\ res.outs[1].end = res.x.end
             /\ res.outs[1].edges = <<>>
             /\ res.outs[1].slevel = 0
        ELSE SigEq(res.outs[1], res.x)

\* C10: NOT keeps start, end, edges and tscale and inverts slevel, and
\* NOT(NOT(s)) == s for every signal, the void one included.
C10_NotInvolution ==
    res.op = "not" =>
        /\ NonVoid(res.x) =>
              /\ NonVoid(res.outs[1])
              /\ res.outs[1].start = res.x.start
              /\ res.outs[1].end = res.x.end
              /\ res.outs[1].edges = res.x.edges
              /\ res.outs[1].tscale = res.x.tscale
              /\ res.outs[1].slevel = 1 - res.x.slevel
        /\ SigEq(Invert(res.outs[1]), res.x)

\* A NOT of a signal with edges and a time scale that is not the default.
C10_Witness ==
    /\ res.op = "not"
    /\ WellFormed(res.x)
    /\ res.x.edges # <<>>
    /\ res.x.tscale # DefaultTscale
    /\ res.outs[1].slevel = 1

\* C3: every signal returned or left in place by the operations is void or
\* satisfies the timing invariants.
C3_InvariantsKept ==
    /\ VoidOrWellFormed(a)
    /\ VoidOrWellFormed(b)
    /\ \A i \in 1..Len(res.outs) : VoidOrWellFormed(res.outs[i])

\* C4: the constructor raises whenever start >= end, an edge lies outside
\* [start, end] or the edges are not strictly ascending.
C4_ConstructorRejects ==
    (/\ res.op = "new"
     /\ \/ res.x.start >= res.x.end
        \/ \E i \in 1..Len(res.x.edges) :
              res.x.edges[i] < res.x.start \/ res.x.edges[i] > res.x.end
        \/ ~Ascending(res.x.edges))
    => res.err /\ res.outs = <<>>

\* C5: joining the two parts of a split at a time strictly inside the domain
\* gives a signal equal to the one split.
C5_JoinOfSplit ==
    (/\ res.op = "split"
     /\ WellFormed(res.x)
     /\ res.x.start < res.args[1]
     /\ res.args[1] < res.x.end)
    => /\ ~res.err
       /\ ~Join(res.outs[1], res.outs[2], FALSE).err
       /\ SigEq(Join(res.outs[1], res.outs[2], FALSE).out, res.x)

\* C6: split at t strictly inside the domain returns the edges before t in
\* the older part and the edges at or after t in the newer part, which starts
\* at the level just before t; at or before the start it returns (void, s),
\* at or after the end (s, void).
C6_SplitParts ==
    (res.op = "split" /\ WellFormed(res.x)) =>
        LET t == res.args[1]
            Before(e) == e < t
            NotBefore(e) == e >= t
        IN /\ ~res.err
           /\ (res.x.start < t /\ t < res.x.end) =>
                /\ NonVoid(res.outs[1])
                /\ res.outs[1].start = res.x.start
                /\ res.outs[1].end = t
                /\ res.outs[1].edges = SelectSeq(res.x.edges, Before)
                /\ res.outs[1].slevel = res.x.slevel
                /\ NonVoid(res.outs[2])
                /\ res.outs[2].start = t
                /\ res.outs[2].end = res.x.end
                /\ res.outs[2].edges = SelectSeq(res.x.edges, NotBefore)
                /\ res.outs[2].slevel = LevelBefore(res.x, t)
           /\ t <= res.x.start =>
                ~NonVoid(res.outs[1]) /\ res.outs[2] = res.x
           /\ t >= res.x.end =>
                res.outs[1] = res.x /\ ~NonVoid(res.outs[2])

\* A split strictly inside the domain at the time of an edge, with an edge
\* before it: the edge at the split time opens the newer part.
C6_Witness ==
    /\ res.op = "split"
    /\ WellFormed(res.x)
    /\ res.x.start < res.args[1]
    /\ res.args[1] < res.x.end
    /\ res.args[1] \in Range(res.x.edges)
    /\ res.outs[1].edges # <<>>
    /\ res.outs[2].edges[1] = res.args[1]

C11_ReverseInvolution ==
    res.op = "reverse" =>
        LET s == res.x
            r == res.outs[1]
            n == Len(res.x.edges)
        IN /\ SigEq(Reverse(r), s)
           /\ res.inplace => a = r
           /\ ~NonVoid(s) => ~NonVoid(r)
           /\ NonVoid(s) =>
                /\ NonVoid(r)
                /\ r.start = s.start
                /\ r.end = s.end
                /\ r.tscale = s.tscale
                /\ r.edges = [i \in 1..n |-> s.start + s.end - s.edges[n + 1 - i]]
                /\ Ascending(r.edges)
                /\ r.slevel = IF n % 2 = 1 THEN 1 - s.slevel ELSE s.slevel

\* A reverse of a signal with an odd number of edges, one of them at the
\* start, that are not placed symmetrically in the domain.
C11_Witness ==
    /\ res.op = "reverse"
    /\ WellFormed(res.x)
    /\ Len(res.x.edges) % 2 = 1
    /\ res.x.edges[1] = res.x.start
    /\ res.outs[1].edges # res.x.edges
    /\ res.outs[1].slevel # res.x.slevel

\* The total length of the parts of the domain of s where s is at level L:
\* the number of unit intervals [t, t + 1] of the domain at that level.
TimeAt(s, L) == Cardinality({t \in s.start..(s.end - 1) : LevelAfter(s, t) = L})

\* C12: integral(s, L) is the total length of the parts of the domain where
\* s is at level L, so integral(s, 1) + integral(s, 0) is the elapse of s and
\* integral(NOT s, 1) is integral(s, 0); the integral of the void signal is
\* None.
C12_IntegralIsTimeAtLevel ==
    res.op = "integral" =>
        LET s == res.x
            L == res.args[1]
            r == res.outs[1]
        IN /\ ~NonVoid(s) => r.none
           /\ WellFormed(s) =>
                /\ ~r.none
                /\ r.value = TimeAt(s, L)
                /\ r.value + Integral(s, 1 - L).value = Elapse(s)
                /\ Integral(Invert(s), 1 - L).value = r.value

\* An integral of a signal with an odd number of edges, the first at the
\* start, for the level the signal ends at.
C12_Witness ==
    /\ res.op = "integral"
    /\ WellFormed(res.x)
    /\ Len(res.x.edges) % 2 = 1
    /\ res.x.edges[1] = res.x.start
    /\ res.x.edges[Len(res.x.edges)] < res.x.end
    /\ res.args[1] = EndLevel(res.x)
    /\ res.outs[1].value > 0

\* Two non-void signals with the same start, end, edges and slevel.
SameTiming(s, o) ==
    /\ s.start = o.start
    /\ s.end = o.end
    /\ s.edges = o.edges
    /\ s.slevel = o.slevel

\* C13: two signals compare equal if and only if both are void, or both are
\* non-void and have the same start, end, edges and slevel, whatever their
\* other fields.
C13_EqualityFields ==
    res.op = "eq" =>
        (res.outs[1].eq <=>
            \/ ~NonVoid(res.x) /\ ~NonVoid(res.y)
            \/ NonVoid(res.x) /\ NonVoid(res.y) /\ SameTiming(res.x, res.y))

\* C13, amended: two signals compare equal if and only if both are void, or
\* both are non-void and have the same start, end, edges, slevel and tscale;
\* != is true exactly when == is false.
C13_EqualityAllFields ==
    res.op = "eq" =>
        /\ res.outs[1].eq <=>
              \/ ~NonVoid(res.x) /\ ~NonVoid(res.y)
              \/ /\ NonVoid(res.x)
                 /\ NonVoid(res.y)
                 /\ SameTiming(res.x, res.y)
                 /\ res.x.tscale = res.y.tscale
        /\ res.outs[1].ne <=> ~res.outs[1].eq

\* A comparison of two non-void signals that differ in the time scale only.
C13_Witness ==
    /\ res.op = "eq"
    /\ WellFormed(res.x)
    /\ WellFormed(res.y)
    /\ SameTiming(res.x, res.y)
    /\ res.x.edges # <<>>
    /\ res.x.tscale # res.y.tscale
    /\ ~res.outs[1].eq

\* The number of edges of s strictly before time t.
EdgesBefore(s, t) == Cardinality({i \in 1..Len(s.edges) : s.edges[i] < t})

RECURSIVE JoinAll(_, _)
JoinAll(acc, pieces) ==
    IF pieces = <<>> THEN [err |-> FALSE, out |-> acc]
    ELSE IF Join(acc, Head(pieces), FALSE).err THEN [err |-> TRUE, out |-> acc]
    ELSE JoinAll(Join(acc, Head(pieces), FALSE).out, Tail(pieces))

\* The signal s from time t on: s itself when t is not after its start.
FromTime(s, t) == IF t <= s.start THEN s ELSE NewerPart(s, t)

\* C15: for a well-formed s, a period > 0 and an origin before the end of s,
\* chop returns non-void pieces, the first starting at max(s.start, origin),
\* each ending where the next starts, the last ending at s.end, every piece
\* but the last of elapse exactly period, and joined in order the pieces
\* equal s from max(s.start, origin) on.
C15_ChopPieces ==
    (/\ res.op = "chop"
     /\ WellFormed(res.x)
     /\ (IF res.args[2] = 1 THEN res.args[3] ELSE res.x.start) < res.x.end)
    => LET s == res.x
           period == res.args[1]
           org == IF res.args[2] = 1 THEN res.args[3] ELSE res.x.start
           c == res.outs
           n == Len(res.outs)
       IN /\ ~res.err
          /\ n >= 1
          /\ \A i \in 1..n : NonVoid(c[i])
          /\ c[1].start = Max(s.start, org)
          /\ c[n].end = s.end
          /\ \A i \in 1..(n - 1) :
                c[i].end = c[i + 1].start /\ Elapse(c[i]) = period
          /\ ~JoinAll(c[1], Tail(c)).err
          /\ SigEq(JoinAll(c[1], Tail(c)).out, FromTime(s, Max(s.start, org)))

\* C16: when stream returns, the signal it was called on, which the next
\* call appends to, and the kept part returned have an elapse no larger than
\* the elapse argument.
C16_StreamBounded ==
    (res.op = "stream" /\ ~res.err) =>
        /\ NonVoid(a) => Elapse(a) <= res.args[1]
        /\ NonVoid(res.outs[2]) => Elapse(res.outs[2]) <= res.args[1]

\* C17: when stream discards a non-void part, the elapse of that part is a
\* multiple of buf_step, the next multiple above the excess of the appended
\* signal's elapse over the elapse argument, and the discarded part followed
\* by the kept part is the appended signal.
C17_StreamDiscard ==
    (/\ res.op = "stream"
     /\ ~res.err
     /\ NonVoid(res.outs[1]))
    => LET appended == AppendSig(res.x, res.y).self
           excess == Elapse(AppendSig(res.x, res.y).self) - res.args[1]
           buf_step == res.args[2]
           discard == res.outs[1]
           keep == res.outs[2]
       IN /\ Elapse(discard) % buf_step = 0
          /\ Elapse(discard) = ((excess \div buf_step) + 1) * buf_step
          /\ discard.start = appended.start
          /\ discard.slevel = appended.slevel
          /\ IF NonVoid(keep)
             THEN /\ discard.end = keep.start
                  /\ keep.end = appended.end
                  /\ keep.slevel = EndLevel(discard)
                  /\ discard.edges \o keep.edges = appended.edges
             ELSE /\ discard.end = appended.end
                  /\ discard.edges = appended.edges

\* C18: for well-formed a and b, correlation(a, b) with the step counts not
\* given returns two lists of the same length, and at every returned shift
\* the shifted a overlaps b on a non-empty interval and the correlation value
\* is a number, the integral at level 0 of XOR(shift(a, that shift), b).
C18_CorrelationDefined ==
    (res.op = "correlation" /\ WellFormed(res.x) /\ WellFormed(res.y)) =>
        LET corr == res.outs[1].corr
            shifts == res.outs[1].shifts
        IN /\ Len(corr) = Len(shifts)
           /\ Len(corr) >= 1
           /\ \A i \in 1..Len(corr) :
                /\ Overlapping(Shift(res.x, shifts[i]), res.y)
                /\ ~corr[i].none
                /\ corr[i] = Integral(Xor(Shift(res.x, shifts[i]), res.y), 0)

\* The fields of a bin2pwm or pwm2bin call as a list, one field included.
CodedFields == IF res.args[1] = 1 THEN res.args[2] ELSE <<res.args[2]>>

\* The call codes one field with 0 < elapse_0 < elapse_1 < period.
OneFieldInRange ==
    /\ Len(CodedFields) = 1
    /\ 0 < res.args[3]
    /\ res.args[3] < res.args[4]
    /\ res.args[4] < res.args[5]

\* C19: for one bit field (n, v) with 0 <= v < 2^n, either active level, any
\* origin and 0 < elapse_0 < elapse_1 < period, bin2pwm does not raise and
\* pwm2bin without period returns exactly (n, v) from its signal; the first
\* pulse codes the lowest bit.
C19_PwmRoundTrip ==
    /\ (res.op = "bin2pwm" /\ OneFieldInRange) => ~res.err
    /\ (res.op = "pwm2bin" /\ OneFieldInRange) =>
          /\ res.outs[1] = [bits |-> CodedFields[1][1], code |-> CodedFields[1][2]]
          /\ CodedFields[1][1] >= 1 =>
                res.x.edges[2] - res.x.edges[1] =
                    IF CodedFields[1][2] % 2 = 1 THEN res.args[4] ELSE res.args[3]

\* A decoding of an active low signal of at least two bits, the lowest 1 and
\* the highest 0, coded from an origin below zero.
C19_Witness ==
    /\ res.op = "pwm2bin"
    /\ OneFieldInRange
    /\ CodedFields[1][1] >= 2
    /\ CodedFields[1][2] = 1
    /\ res.args[6] = 0
    /\ res.args[7] < 0
    /\ NonVoid(res.x)
    /\ res.outs[1].code = 1

\* C20: bin2pwm returns the void signal, without raising, for an empty list
\* of bit fields, for one field of bit count 0 and for a list of fields
\* whose bit counts are all 0.
C20_NoBitsGiveVoid ==
    (/\ res.op = "bin2pwm"
     /\ \A i \in 1..Len(CodedFields) : CodedFields[i][1] = 0)
    => /\ ~res.err
       /\ res.outs = <<Void>>

\* C28: chop returns an empty list when the signal is void and also when
\* the origin given is after the signal end.
C28_ChopEmptyPastEnd ==
    (/\ res.op = "chop"
     /\ \/ ~NonVoid(res.x)
        \/ res.args[2] = 1 /\ res.x.end < res.args[3])
    => /\ ~res.err
       /\ res.outs = <<>>

\* ---------------------------------------------------------------------
\* The scenario of the logic tests: a base signal and its shifted copies.
\* ---------------------------------------------------------------------

\* The change times of the base signal of the tests.
BaseEdges == <<0, 2, 3, 4, 6>>

\* The base signal: start 0, end 6, start level 0, time scale 1.
Base == Signal(0, BaseEdges, 6, 0, 1)

\* The signals on the domain of the base signal whose edges are taken among
\* the edges of the base signal.
BaseSignals ==
    {Signal(Base.start, e, Base.end, l, Base.tscale) :
        e \in AscendingSeqs(Range(BaseEdges)), l \in Levels}

\* The offsets of the shifted copies shift1 .. shift7.
ShiftSteps == 1..7

InitShifts ==
    /\ a \in BaseSignals
    /\ b = Void
    /\ res = NoCall

\* b = a.shift(n): the caller keeps a shifted copy of a.
DoShiftCopy ==
    /\ Idle
    /\ \E n \in ShiftSteps : b' = Shift(a, n)
    /\ UNCHANGED <<a, res>>

NextShifts == DoShiftCopy \/ DoAnd \/ Return

SpecShifts == InitShifts /\ [][NextShifts]_vars

Older(s, split, inplace) ==
    LET ok(r, me) == [err |-> FALSE, out |-> r, self |-> me]
        cut == [s EXCEPT !.edges = Slice(s.edges, 0, Level(s, split, 0).pos)]
        older == OlderPart(s, split)
    IN IF ~NonVoid(s) THEN ok(s, s)
       ELSE IF split < s.start \/ s.end < split THEN ok(s, s)
       ELSE IF split = s.start THEN ok(Void, s)
       ELSE IF split = s.end THEN ok(s, s)
       ELSE IF inplace THEN ok(cut, cut)
       ELSE IF ValidateRaises(older.start, older.edges, older.end)
            THEN [err |-> TRUE, out |-> Void, self |-> s]
       ELSE ok(older, s)

\* Signal.newer(split, inplace): [err, out, self].  In place self takes the
\* split time as start, the edges from the split on and the level at the
\* split; not in place the newer part goes through the constructor.
Newer(s, split, inplace) ==
    LET ok(r, me) == [err |-> FALSE, out |-> r, self |-> me]
        lv == Level(s, split, 0)
        cut == [s EXCEPT !.start = split,
                         !.edges = Slice(s.edges, lv.pos, Len(s.edges)),
                         !.slevel = lv.level]
        newer == NewerPart(s, split)
    IN IF ~NonVoid(s) THEN ok(s, s)
       ELSE IF split < s.start \/ s.end < split THEN ok(s, s)
       ELSE IF split = s.start THEN ok(s, s)
       ELSE IF split = s.end THEN ok(Void, s)
       ELSE IF inplace THEN ok(cut, cut)
       ELSE IF ValidateRaises(newer.start, newer.edges, newer.end)
            THEN [err |-> TRUE, out |-> Void, self |-> s]
       ELSE ok(newer, s)

\* a.older(t, inplace)
DoOlder ==
    /\ Ready
    /\ \E t \in Times, inplace \in BOOLEAN :
        LET r == Older(a, t, inplace)
        IN /\ res' = Call("older", inplace, r.err, a, b, <<t>>,
                          IF r.err THEN <<>> ELSE <<r.out>>)
           /\ a' = r.self
    /\ UNCHANGED b

\* a.newer(t, inplace)
DoNewer ==
    /\ Ready
    /\ \E t \in Times, inplace \in BOOLEAN :
        LET r == Newer(a, t, inplace)
        IN /\ res' = Call("newer", inplace, r.err, a, b, <<t>>,
                          IF r.err THEN <<>> ELSE <<r.out>>)
           /\ a' = r.self
    /\ UNCHANGED b

\* ---------------------------------------------------------------------
\* Which objects a call returns: self, other, or objects of its own.
\* ---------------------------------------------------------------------

\* Where a returned signal object and its edge list come from: "self" and
\* "other" are the operands and their lists, "new" is made by the call.
Ref(obj, list) == [obj |-> obj, list |-> list]

Self == Ref("self", "self")

Other == Ref("other", "other")

\* Signal(start, edges, ...): a new object that stores the list it is given.
New(list) == Ref("new", list)

\* A faulty variant of Clone that copies the object and not its edge list.
CloneShallow(r) == Ref("new", r.list)

\* Signal.clone: a deep copy, the object and its edge list are new.
Clone(r) == Ref("new", "new")

\* Signal.clone_into(dest): dest takes a copy of the edge list.
CloneInto(r, dest) == Ref(dest.obj, "new")

\* The signals chop returns: a clone of self when nothing is cut from it,
\* else the parts that the splits of the clone built.
ChopRefs(s, period, given, origin, chops) ==
    LET org == IF given THEN origin ELSE s.start
    IN IF s.end <= org \/ (org <= s.start /\ Len(chops) = 1)
       THEN <<Clone(Self)>>
       ELSE [i \in 1..Len(chops) |-> New("new")]

\* The origins of the signals a call returns, in the order of its results.
Returned(c) ==
    LET s == c.x
        o == c.y
        mine == IF c.inplace THEN Self ELSE Clone(Self)
        t == c.args[1]
    IN IF c.err THEN <<>>
       ELSE CASE c.op = "clone" -> <<Clone(Self)>>
         [] c.op \in {"and", "or", "xor"} -> <<New("new")>>
         [] c.op \in {"not", "shift", "reverse"} -> <<mine>>
         [] c.op = "split" ->
              IF ~NonVoid(s)
              THEN IF c.inplace THEN <<Self, Self>>
                   ELSE <<New("new"), New("new")>>
              ELSE IF t <= s.start THEN <<New("new"), mine>>
              ELSE IF s.end <= t THEN <<mine, New("new")>>
              ELSE <<New("new"), IF c.inplace THEN Self ELSE New("new")>>
         [] c.op = "older" ->
              IF ~NonVoid(s) \/ t < s.start \/ s.end < t THEN <<mine>>
              ELSE IF t = s.start THEN <<New("new")>>
              ELSE IF t = s.end THEN <<mine>>
              ELSE <<IF c.inplace THEN Self ELSE New("new")>>
         [] c.op = "newer" ->
              IF ~NonVoid(s) \/ t < s.start \/ s.end < t THEN <<mine>>
              ELSE IF t = s.start THEN <<mine>>
              ELSE IF t = s.end THEN <<New("new")>>
              ELSE <<IF c.inplace THEN Self ELSE New("new")>>
         [] c.op \in {"join", "append"} ->
              IF ~NonVoid(o) THEN <<mine>>
              ELSE IF ~NonVoid(s)
                   THEN <<IF c.inplace THEN CloneInto(Other, Self)
                          ELSE Clone(Other)>>
              ELSE <<IF c.inplace THEN Self ELSE New("new")>>
         [] c.op = "chop" ->
              IF ~NonVoid(s) THEN <<>>
              ELSE ChopRefs(s, c.args[1], c.args[2] = 1, c.args[3], c.outs)
         [] OTHER -> <<>>

\* The value of the operand who ("self" or "other"), now v, after the
\* object of origin r and value w has been shifted in place to shifted:
\* shift adds the offset to the start and end of the object and to every
\* element of its edge list.
AfterShift(v, who, r, w, shifted) ==
    IF r.obj = who THEN shifted
    ELSE IF r.list = who /\ NonVoid(w) THEN [v EXCEPT !.edges = shifted.edges]
    ELSE v

\* a.clone()
DoClone ==
    /\ Ready
    /\ res' = Call("clone", FALSE, FALSE, a, b, <<>>, <<a>>)
    /\ UNCHANGED <<a, b>>

\* The operations whose call can be followed by an in-place change.
SignalOps ==
    {"clone", "and", "or", "xor", "not", "integral", "correlation", "chop",
     "shift", "reverse", "split", "older", "newer", "join"}

\* res.outs[i].shift(1, inplace=True): the caller shifts in place a
\* signal the call returned.  The operands and the other results change
\* when they are the same object or hold the same edge list.  An operand is
\* shifted within Times only.
MutateResult ==
    /\ res.op \in SignalOps
    /\ ~res.err
    /\ \E i \in 1..Len(Returned(res)) :
        LET r == Returned(res)[i]
            w == res.outs[i]
            shifted == Shift(w, 1)
            same(j) == j = i \/ (r.obj # "new" /\ Returned(res)[j].obj = r.obj)
            list(j) == r.list # "new" /\ Returned(res)[j].list = r.list
        IN /\ (r.obj # "new" /\ NonVoid(w))
              => shifted.start \in Times /\ shifted.end \in Times
           /\ a' = AfterShift(a, "self", r, w, shifted)
           /\ b' = AfterShift(b, "other", r, w, shifted)
           /\ res' = Call("mutate_result", res.inplace, FALSE, a, b, <<res, i>>,
                          [j \in 1..Len(res.outs) |->
                             IF same(j) THEN shifted
                             ELSE IF list(j) /\ NonVoid(w)
                                  THEN [res.outs[j] EXCEPT
                                          !.edges = shifted.edges]
                             ELSE res.outs[j]])

\* a.shift(offset, inplace=True) or b.shift(offset, inplace=True) after a
\* call: the caller shifts an operand in place.  The results of the call
\* change when they are the same object or hold the same edge list.
MutateOperand ==
    /\ res.op \in SignalOps
    /\ ~res.err
    /\ \E who \in {"self", "other"}, offset \in Offsets :
        LET v == IF who = "self" THEN a ELSE b
            shifted == Shift(v, offset)
        IN /\ NonVoid(v)
           /\ shifted.start \in Times /\ shifted.end \in Times
           /\ a' = IF who = "self" THEN shifted ELSE a
           /\ b' = IF who = "other" THEN shifted ELSE b
           /\ res' = Call("mutate_operand", res.inplace, FALSE, a, b,
                          <<res, who>>,
                          [j \in 1..Len(res.outs) |->
                             IF j > Len(Returned(res)) THEN res.outs[j]
                             ELSE AfterShift(res.outs[j], who,
                                             Returned(res)[j], v, shifted)])

NextFrame ==
    \/ DoClone \/ DoAnd \/ DoOr \/ DoXor \/ DoNot
    \/ DoIntegral \/ DoCorrelation \/ DoChop
    \/ DoShift \/ DoReverse \/ DoSplit \/ DoJoin
    \/ MutateResult \/ MutateOperand
    \/ Return

SpecFrame == Init /\ [][NextFrame]_vars

\* The operations that have an in-place mode, called in either mode.
NextModes ==
    \/ DoNot \/ DoShift \/ DoReverse \/ DoSplit \/ DoOlder \/ DoNewer
    \/ DoJoin \/ Return

SpecModes == Init /\ [][NextModes]_vars

\* The operations C26 names; shift, reverse, split and join in their
\* non-in-place form.
FrameOps ==
    {"clone", "and", "or", "xor", "not", "integral", "correlation", "chop",
     "shift", "reverse", "split", "join"}

\* C26: clone, AND, OR, XOR, NOT, integral, correlation, chop and the
\* non-in-place forms of shift, reverse, split and join leave every operand
\* unchanged in every field, and the signals they return share no edge list
\* with an operand: shifting a result in place afterwards changes no
\* operand, and shifting an operand in place changes no result.
C26_OperandsUntouched ==
    /\ (res.op \in FrameOps /\ ~res.inplace)
       => a = res.x /\ b = res.y
    /\ (/\ res.op = "mutate_result"
        /\ res.args[1].op \in FrameOps
        /\ ~res.args[1].inplace)
       => /\ a = res.x /\ a = res.args[1].x
          /\ b = res.y /\ b = res.args[1].y
    /\ (/\ res.op = "mutate_operand"
        /\ res.args[1].op \in FrameOps
        /\ ~res.args[1].inplace)
       => res.outs = res.args[1].outs

\* A non-void signal with edges was shifted not in place and the signal
\* returned was then shifted in place.
C26_Witness ==
    /\ res.op = "mutate_result"
    /\ res.args[1].op = "shift"
    /\ ~res.args[1].inplace
    /\ NonVoid(res.x)
    /\ Len(res.x.edges) > 0
    /\ res.outs # res.args[1].outs

\* The operations with an in-place mode and a non-in-place mode.
ModeOps == {"shift", "reverse", "not", "split", "older", "newer", "join"}

\* The results of the operation op on s and o in the given mode.
ModeOuts(op, s, o, args, inplace) ==
    LET one(r) == [err |-> r.err, outs |-> IF r.err THEN <<>> ELSE <<r.out>>]
        sp == Split(s, args[1], inplace)
    IN CASE op = "shift" -> [err |-> FALSE, outs |-> <<Shift(s, args[1])>>]
         [] op = "reverse" -> [err |-> FALSE, outs |-> <<Reverse(s)>>]
         [] op = "not" -> [err |-> FALSE, outs |-> <<Invert(s)>>]
         [] op = "split" ->
              [err |-> sp.err,
               outs |-> IF sp.err THEN <<>> ELSE <<sp.older, sp.newer>>]
         [] op = "older" -> one(Older(s, args[1], inplace))
         [] op = "newer" -> one(Newer(s, args[1], inplace))
         [] op = "join" -> one(Join(s, o, inplace))

\* C29: for shift, reverse, NOT, split, older, newer and join, the signals
\* returned in place are equal in every field (start, end, edges, slevel,
\* tscale) to the signals the non-in-place mode returns on equal inputs.
C29_ModesAgree ==
    (res.op \in ModeOps /\ res.inplace /\ ~res.err)
    => LET other == ModeOuts(res.op, res.x, res.y, res.args, FALSE)
       IN ~other.err => res.outs = other.outs

\* ---------------------------------------------------------------------
\* The serial line: serial_tx and serial_rx.  Characters are their codes
\* (ord and chr convert between a one-character string and its code, and
\* chr takes the codes 0..255 only).
\* ---------------------------------------------------------------------

\* Python's x & y and x | y on non-negative integers.
RECURSIVE BitAnd(_, _)
BitAnd(x, y) ==
    IF x = 0 \/ y = 0 THEN 0
    ELSE (x % 2) * (y % 2) + 2 * BitAnd(x \div 2, y \div 2)

RECURSIVE BitOr(_, _)
BitOr(x, y) ==
    IF x = 0 THEN y
    ELSE IF y = 0 THEN x
    ELSE Max(x % 2, y % 2) + 2 * BitOr(x \div 2, y \div 2)

\* The status codes of serial_rx.
PARITY_ERROR == 1

STOP_ERROR == 2

EOS_START == 16

EOS_CHAR == 32

EOS_PARITY == 48

EOS_STOP == 64

\* __parity(value): 0 for an even number of ones in value, 1 for an odd one.
RECURSIVE ParityLoop(_, _)
ParityLoop(value, ones) ==
    IF value = 0 THEN ones % 2
    ELSE ParityLoop(BitAnd(value, value - 1), ones + 1)

Parity(value) == ParityLoop(value, 0)

\* The bit time of the transmitter: tscale / baud.
BitTime(tscale, baud) == tscale \div baud

\* The mask of the character bits the transmitter computes the parity on.
RECURSIVE TxMask(_, _)
TxMask(mask, i) == IF i <= 0 THEN mask ELSE TxMask(BitOr(mask * 2, 1), i - 1)

\* The loop of serial_tx over the data bits c .. char_bits of one
\* character: an edge is appended when the line level equals the bit.
RECURSIVE TxData(_, _, _, _, _, _, _)
TxData(edges, line, schar, start, c, char_bits, bit_time) ==
    IF c > char_bits THEN [edges |-> edges, line |-> line]
    ELSE IF Lxor(line, BitAnd(schar, 1)) = 0
         THEN TxData(Append(edges, start + c * bit_time), Lnot(line),
                     schar \div 2, start, c + 1, char_bits, bit_time)
         ELSE TxData(edges, line, schar \div 2, start, c + 1, char_bits,
                     bit_time)

\* The body of the loop of serial_tx for one character: the start edge, the
\* data bits, the parity bit and the return to idle for the stop bits.
\* [edges, start]: the edges so far and the time the frame ends at.
TxChar(edges, char, start, char_bits, parity, stop_bits, bit_time) ==
    LET d == TxData(Append(edges, start), 1, char, start, 1, char_bits,
                    bit_time)
        mask == TxMask(31, char_bits - 5)
        ones == Lxor(Parity(BitAnd(char, mask)),
                     IF parity = "odd" THEN 1 ELSE 0)
        cp == char_bits + 1
        p == IF parity = "off" THEN d
             ELSE IF Lxor(d.line, ones) = 0
                  THEN [edges |-> Append(d.edges, start + cp * bit_time),
                        line |-> Lnot(d.line)]
             ELSE d
        c == IF parity = "off" THEN char_bits + 1 ELSE cp + 1
    IN [edges |-> IF p.line = 1 THEN Append(p.edges, start + c * bit_time)
                  ELSE p.edges,
        start |-> start + (c + stop_bits) * bit_time]

\* The loop of serial_tx over zip(chars, times) from index i on.  prev_start
\* is set to 0 before the loop and never assigned in it.
RECURSIVE TxLoop(_, _, _, _, _, _, _, _, _, _)
TxLoop(chars, times, i, prev_start, edges, last, char_bits, parity, stop_bits, bit_time) ==
    IF i > Min(Len(chars), Len(times)) THEN [edges |-> edges, start |-> last]
    ELSE LET start == IF prev_start > times[i] THEN prev_start ELSE times[i]
             f == TxChar(edges, chars[i], start, char_bits, parity,
                         stop_bits, bit_time)
         IN TxLoop(chars, times, i + 1, prev_start, f.edges, f.start,
                   char_bits, parity, stop_bits, bit_time)

\* serial_tx(chars, times, char_bits, parity, stop_bits, baud, tscale) for
\* non-empty lists: [err, out].  The line signal is first built empty from
\* times[0] to times[-1] by the constructor, whose validation can raise;
\* the edges and the end are then set without validation.
SerialTx(chars, times, char_bits, parity, stop_bits, baud, tscale) ==
    LET r == TxLoop(chars, times, 1, 0, <<>>, times[1], char_bits, parity,
                    stop_bits, BitTime(tscale, baud))
    IN IF ValidateRaises(times[1], <<>>, times[Len(times)])
       THEN [err |-> TRUE, out |-> Void]
       ELSE [err |-> FALSE,
             out |-> Signal(times[1], r.edges, r.start, 0, tscale)]

\* char_mask[char_bits]: the bit a received one is put at.
CharMask(char_bits) == <<0, 0, 0, 0, 0, 16, 32, 64, 128>>[char_bits + 1]

\* The state of the receiver: where it is (pc), its locals and its lists.
RxState(pc, start, sample_time, tpos, char, chars, timings, status) ==
    [pc |-> pc, start |-> start, sample_time |-> sample_time, tpos |-> tpos,
     char |-> char, chars |-> chars, timings |-> timings, status |-> status]

\* status[-1] |= code
Flag(status, code) ==
    [status EXCEPT ![Len(status)] = BitOr(status[Len(status)], code)]

\* serial_rx up to its while loop: a void signal and a signal without edges
\* return the empty lists.
RxBegin(sline) ==
    IF ~NonVoid(sline) \/ Len(sline.edges) = 0
    THEN RxState("done", 0, 0, 0, 0, <<>>, <<>>, <<>>)
    ELSE RxState("sample", sline.edges[1], 0, 0, 0, <<>>, <<>>, <<>>)

\* The top of the while loop: the line is sampled half a bit after start.
\* Past the end of the signal the lists are returned; at level 0 the
\* receiver goes on looking for a start bit; at level 1 it reads a
\* character.
RxSample(sline, st, bit_time) ==
    LET sample_time == st.start + bit_time \div 2
        lv == Level(sline, sample_time, st.tpos)
    IN IF lv.none THEN [st EXCEPT !.pc = "done", !.sample_time = sample_time]
       ELSE [st EXCEPT !.pc = IF lv.level = 0 THEN "idle" ELSE "char",
                       !.sample_time = sample_time, !.tpos = lv.pos]

\* No start bit: start moves to the edge at tpos, when there is one, and
\* the loop continues.
RxIdle(sline, st) ==
    [st EXCEPT !.pc = "sample",
               !.start = IF st.tpos < Len(sline.edges)
                         THEN sline.edges[st.tpos + 1] ELSE st.start]

\* The filling of the bits not sampled when the signal ends in the data
\* bits: for j in range(c): char >>= 1; char |= char_mask[char_bits].
RECURSIVE RxFill(_, _, _)
RxFill(char, j, char_bits) ==
    IF j <= 0 THEN char
    ELSE RxFill(BitOr(char \div 2, CharMask(char_bits)), j - 1, char_bits)

\* The loop over the data bits, c bits to go.
RECURSIVE RxData(_, _, _, _, _)
RxData(sline, st, c, char_bits, bit_time) ==
    IF c <= 0 THEN st
    ELSE LET sample_time == st.sample_time + bit_time
             lv == Level(sline, sample_time, st.tpos)
         IN IF lv.none
            THEN [st EXCEPT !.pc = "done", !.sample_time = sample_time,
                            !.char = RxFill(st.char, c, char_bits),
                            !.chars = Append(st.chars,
                                             RxFill(st.char, c, char_bits)),
                            !.timings = Append(st.timings, st.start),
                            !.status = Flag(st.status, EOS_CHAR)]
            ELSE RxData(sline,
                        [st EXCEPT !.sample_time = sample_time,
                                   !.tpos = lv.pos,
                                   !.char = IF lv.level = 0
                                            THEN BitOr(st.char \div 2,
                                                       CharMask(char_bits))
                                            ELSE st.char \div 2],
                        c - 1, char_bits, bit_time)

\* A faulty variant of RxParity that returns the lists at a parity mismatch.
RxParityAborts(sline, st, parity, bit_time) ==
    LET ones == Lxor(Parity(st.char), IF parity = "odd" THEN 1 ELSE 0)
        sample_time == st.sample_time + bit_time
        lv == Level(sline, sample_time, st.tpos)
    IN IF parity = "off" THEN st
       ELSE IF lv.none
            THEN [st EXCEPT !.pc = "done", !.sample_time = sample_time,
                            !.status = Flag(st.status, EOS_PARITY)]
       ELSE IF lv.level = ones
            THEN [st EXCEPT !.pc = "done", !.sample_time = sample_time,
                            !.tpos = lv.pos,
                            !.status = Flag(st.status, PARITY_ERROR)]
       ELSE [st EXCEPT !.sample_time = sample_time, !.tpos = lv.pos]

\* The parity bit of the character just read.
RxParity(sline, st, parity, bit_time) ==
    LET ones == Lxor(Parity(st.char), IF parity = "odd" THEN 1 ELSE 0)
        sample_time == st.sample_time + bit_time
        lv == Level(sline, sample_time, st.tpos)
    IN IF parity = "off" THEN st
       ELSE IF lv.none
            THEN [st EXCEPT !.pc = "done", !.sample_time = sample_time,
                            !.status = Flag(st.status, EOS_PARITY)]
       ELSE [st EXCEPT !.sample_time = sample_time, !.tpos = lv.pos,
                       !.status = IF lv.level = ones
                                  THEN Flag(st.status, PARITY_ERROR)
                                  ELSE st.status]

\* The loop over the stop bits, n bits to go.
RECURSIVE RxStop(_, _, _, _)
RxStop(sline, st, n, bit_time) ==
    IF n <= 0 THEN st
    ELSE LET sample_time == st.sample_time + bit_time
             lv == Level(sline, sample_time, st.tpos)
         IN IF lv.none
            THEN [st EXCEPT !.pc = "done", !.sample_time = sample_time,
                            !.status = Flag(st.status, EOS_STOP)]
            ELSE RxStop(sline,
                        [st EXCEPT !.sample_time = sample_time,
                                   !.tpos = lv.pos,
                                   !.status = IF lv.level = 1
                                              THEN Flag(st.status, STOP_ERROR)
                                              ELSE st.status],
                        n - 1, bit_time)

\* A start bit was sampled: the data bits, the parity bit and the stop bits
\* of one character are read, and start moves to the end of its frame.
RxChar(sline, st, char_bits, parity, stop_bits, bit_time) ==
    LET s0 == [st EXCEPT !.status = Append(st.status, 0)]
        d == RxData(sline, s0, char_bits, char_bits, bit_time)
        e == [d EXCEPT !.chars = Append(d.chars, d.char),
                       !.timings = Append(d.timings, d.start)]
        p == RxParity(sline, e, parity, bit_time)
        q == RxStop(sline, p, stop_bits, bit_time)
    IN IF d.pc = "done" THEN d
       ELSE IF p.pc = "done" THEN p
       ELSE IF q.pc = "done" THEN q
       ELSE [q EXCEPT !.pc = "sample",
                      !.start = q.sample_time + bit_time \div 2]

\* One step of the receiver from the state st.
RxStep(sline, st, char_bits, parity, stop_bits, bit_time) ==
    IF st.pc = "sample" THEN RxSample(sline, st, bit_time)
    ELSE IF st.pc = "idle" THEN RxIdle(sline, st)
    ELSE IF st.pc = "char"
         THEN RxChar(sline, st, char_bits, parity, stop_bits, bit_time)
    ELSE st

\* The receiver run for at most fuel steps.
RECURSIVE RxRun(_, _, _, _, _, _, _)
RxRun(sline, st, char_bits, parity, stop_bits, bit_time, fuel) ==
    IF st.pc = "done" \/ fuel = 0 THEN st
    ELSE RxRun(sline,
               RxStep(sline, st, char_bits, parity, stop_bits, bit_time),
               char_bits, parity, stop_bits, bit_time, fuel - 1)

\* The parameters the serial line is used with.  The time scale and the
\* baud rate give a bit time of 4 time units, so that a quarter of a bit
\* is one unit.
CharBits == {7, 8}

Parities == {"off", "odd", "even"}

StopBits == {1, 2}

SerialScales == {4}

SerialBauds == {1}

\* The codes of the characters sent; they fit in 7 bits.
CharCodes == {0, 53, 127}

\* The lists of one or two characters.
CharLists == {<<c>> : c \in CharCodes} \cup (CharCodes \X CharCodes)

\* The start time of the first character.
FirstTimes == {-1, 0, 1}

\* The time between the end of a frame and the start time asked for the
\* next character; negative when the character is asked too early.
Slacks == {-4, 1, 2, 5}

\* The duration of the frame of one character: the start bit, the data
\* bits, the parity bit when there is one and the stop bits.
Frame(char_bits, parity, stop_bits, bit_time) ==
    (1 + char_bits + (IF parity = "off" THEN 0 ELSE 1) + stop_bits) * bit_time

\* The calls to the serial line leave the signals a and b alone; the call
\* records hold the line signal.
InitSerial ==
    /\ a = Void
    /\ b = Void
    /\ res = NoCall

\* serial_tx(chars, times, char_bits, parity, stop_bits, baud, tscale)
\* args: <<chars, times, char_bits, parity, stop_bits, bit_time>>.
DoSerialTx ==
    /\ Idle
    /\ \E chars \in CharLists, t0 \in FirstTimes, slack \in Slacks,
          char_bits \in CharBits, parity \in Parities, stop_bits \in StopBits,
          baud \in SerialBauds, tscale \in SerialScales :
        LET bit_time == BitTime(tscale, baud)
            times == IF Len(chars) = 1 THEN <<t0>>
                     ELSE <<t0, t0 + Frame(char_bits, parity, stop_bits,
                                           bit_time) + slack>>
            r == SerialTx(chars, times, char_bits, parity, stop_bits, baud,
                          tscale)
        IN res' = Call("serial_tx", FALSE, r.err, Void, Void,
                       <<chars, times, char_bits, parity, stop_bits,
                         bit_time>>,
                       IF r.err THEN <<>> ELSE <<r.out>>)
    /\ UNCHANGED <<a, b>>

\* The parities the receiver can be set to for a line sent with parity p:
\* the same one, or the opposite one when there is a parity bit.
RxParities(p) == IF p = "off" THEN {"off"} ELSE {"odd", "even"}

\* serial_rx(sline, char_bits, parity, stop_bits, baud) is called on the
\* line serial_tx returned; x is the line, outs[1] the receiver's state.
\* args: the arguments of serial_tx, then the parity of the receiver.
RxStart ==
    /\ res.op = "serial_tx"
    /\ ~res.err
    /\ \E parity \in RxParities(res.args[4]) :
        res' = Call("serial_rx", FALSE, FALSE, res.outs[1], Void,
                    res.args \o <<parity>>, <<RxBegin(res.outs[1])>>)
    /\ UNCHANGED <<a, b>>

\* The receiver is running.
RxActive == res.op = "serial_rx" /\ res.outs[1].pc # "done"

\* The receiver has returned its lists.
RxDone == res.op = "serial_rx" /\ res.outs[1].pc = "done"

\* One step of the receiver.
RxNext ==
    /\ RxActive
    /\ res' = [res EXCEPT !.outs = <<RxStep(res.x, res.outs[1], res.args[3],
                                            res.args[7], res.args[5],
                                            res.args[6])>>]
    /\ UNCHANGED <<a, b>>

\* The caller takes the lists serial_rx returned, or the exception
\* serial_tx raised.
SerialReturn ==
    /\ RxDone \/ (res.op = "serial_tx" /\ res.err)
    /\ res' = NoCall
    /\ UNCHANGED <<a, b>>

NextSerial == DoSerialTx \/ RxStart \/ RxNext \/ SerialReturn

SpecSerial == InitSerial /\ [][NextSerial]_vars /\ WF_vars(RxNext)

\* C30: for a list of exactly one character and any start time t, negative,
\* zero or positive, serial_tx returns, without raising, a valid signal
\* whose first edge is at t and whose end is t plus the frame duration.
C30_OneCharAnyTime ==
    (res.op = "serial_tx" /\ Len(res.args[1]) = 1)
    => /\ ~res.err
       /\ WellFormed(res.outs[1])
       /\ res.outs[1].edges[1] = res.args[2][1]
       /\ res.outs[1].end =
            res.args[2][1] + Frame(res.args[3], res.args[4], res.args[5],
                                   res.args[6])

\* C22: in serial_tx, whenever a character's requested start time is
\* earlier than the end of the previous character's frame, its start edge
\* is placed at that frame end instead of the requested time, so successive
\* frames never overlap and the edges of the produced signal are strictly
\* ascending.
C22_FifoDelaysStart ==
    (res.op = "serial_tx" /\ ~res.err /\ Len(res.args[1]) = 2)
    => LET out == res.outs[1]
           first == TxChar(<<>>, res.args[1][1], out.edges[1], res.args[3],
                           res.args[4], res.args[5], res.args[6])
           second == TxChar(first.edges, res.args[1][2], first.start,
                            res.args[3], res.args[4], res.args[5],
                            res.args[6])
       IN /\ Ascending(out.edges)
          /\ res.args[2][2] < first.start
             => /\ out.edges = second.edges
                /\ out.end = second.start

\* C21: for every list of two or more characters with non-negative,
\* strictly increasing start times spaced by more than one frame duration,
\* char_bits in {7,8}, parity in {off, odd, even} and stop_bits in {1,2},
\* serial_rx(serial_tx(chars, times)) with the same parameters returns
\* exactly the same characters and start times, with every status code 0.
C21_SerialRoundTrip ==
    (/\ RxDone
     /\ res.args[7] = res.args[4]
     /\ Len(res.args[1]) >= 2
     /\ res.args[2][1] >= 0
     /\ res.args[2][2] - res.args[2][1]
          > Frame(res.args[3], res.args[4], res.args[5], res.args[6]))
    => /\ res.outs[1].chars = res.args[1]
       /\ res.outs[1].timings = res.args[2]
       /\ res.outs[1].status = [i \in 1..Len(res.args[1]) |-> 0]

\* The steps that are enough for the receiver to return on a line whose
\* edges it moves along: two for every edge, and the first and last ones.
RxFuel(sline) == 2 * Len(sline.edges) + 4

\* serial_rx run to its return on the line sline.
Received(sline, char_bits, parity, stop_bits, bit_time) ==
    RxRun(sline, RxBegin(sline), char_bits, parity, stop_bits, bit_time,
          RxFuel(sline))

\* The other parity setting.
Opposite(parity) == IF parity = "odd" THEN "even" ELSE "odd"

\* The parity bit of the character of status code st was sampled: the
\* signal did not end in its data bits or at its parity bit.
ParitySampled(st) == BitAnd(st, 112) \notin {EOS_CHAR, EOS_PARITY}

RxStartCut ==
    /\ res.op = "serial_tx"
    /\ ~res.err
    /\ \E parity \in RxParities(res.args[4]),
          t \in (res.outs[1].start + 1)..(res.outs[1].end - 1) :
        LET cut == Older(res.outs[1], t, FALSE)
        IN /\ ~cut.err
           /\ res' = Call("serial_rx", FALSE, FALSE, cut.out, Void,
                          res.args \o <<parity>>, <<RxBegin(cut.out)>>)
    /\ UNCHANGED <<a, b>>

NextSerialCut == DoSerialTx \/ RxStartCut \/ RxNext \/ SerialReturn

\* The receiver is sequential code: when it can take a step it takes it.
SpecSerialCut == InitSerial /\ [][NextSerialCut]_vars /\ WF_vars(RxNext)

\* The end-of-signal code of a status: its bits 0x70.
EosCode(st) == BitAnd(st, 112)

\* 2^n
RECURSIVE Pow2(_)
Pow2(n) == IF n <= 0 THEN 1 ELSE 2 * Pow2(n - 1)

\* The receiver returned because the sample number j of a character was
\* past the end of the signal: j = 0 is the sample of the start bit, 1 ..
\* char_bits the data bits, then the parity bit if any and the stop bits.
\* The start bit counts when start is at a rising edge of the line, and not
\* at the end of the frame of the character before.
EndedAtSample(j) ==
    /\ RxDone
    /\ NonVoid(res.x)
    /\ Len(res.x.edges) > 0
    /\ res.outs[1].sample_time = res.outs[1].start + res.args[6] \div 2
                                   + j * res.args[6]
    /\ res.outs[1].sample_time > res.x.end
    /\ j = 0 => \E i \in 1..Len(res.x.edges) :
                   i % 2 = 1 /\ res.x.edges[i] = res.outs[1].start

\* The last character emitted has the start time of the character being
\* sampled and the end-of-signal code given.
EmittedWith(code) ==
    LET st == res.outs[1]
    IN /\ Len(st.chars) > 0
       /\ Len(st.chars) = Len(st.timings)
       /\ Len(st.chars) = Len(st.status)
       /\ st.timings[Len(st.timings)] = st.start
       /\ EosCode(st.status[Len(st.status)]) = code

\* C23: when the signal ends while serial_rx is sampling a character, that
\* character is still emitted with its start time and a status carrying
\* the end-of-signal code of the state that was active (start bit, data
\* bits, parity bit or stop bits); when the end is reached during the data
\* bits, the bits that were not sampled are zero in the emitted character.
C23_EndOfSignalStatus ==
    RxDone
    => LET char_bits == res.args[3]
           np == IF res.args[7] = "off" THEN 0 ELSE 1
           st == res.outs[1]
       IN /\ EndedAtSample(0) => EmittedWith(EOS_START)
          /\ \A j \in 1..char_bits :
               EndedAtSample(j)
               => /\ EmittedWith(EOS_CHAR)
                  /\ st.chars[Len(st.chars)] \div Pow2(j - 1) = 0
          /\ (np = 1 /\ EndedAtSample(char_bits + 1))
             => EmittedWith(EOS_PARITY)
          /\ \A s \in 1..res.args[5] :
               EndedAtSample(char_bits + np + s) => EmittedWith(EOS_STOP)

\* C25: serial_rx terminates and returns its three lists for every valid
\* non-void signal and every parameter set, wherever the last edge lies
\* relative to the signal end and whatever level the line holds after it;
\* in every state the receiver eventually either moves to a later sampling
\* time or returns.  The only path of the loop that does not add a bit
\* time to the sampling time is the one that found no start bit: from
\* there the next sample is later than the last one, or the receiver
\* returns.  The receiver is deterministic, so a state it comes back to is
\* a loop it never leaves.
C25_ReceiverProgress ==
    (RxActive /\ res.outs[1].pc = "idle")
    => LET st == res.outs[1]
           nxt == RxSample(res.x, RxIdle(res.x, st), res.args[6])
       IN nxt.pc = "done" \/ nxt.sample_time > st.sample_time

====
